---- MODULE Spec2Model ----
(***************************************************************************)
(* Model of unifi_poe_control.py: one run of main() against a UniFi        *)
(* controller.  The controller (aiounifi) and the operator are the         *)
(* environment: every outcome a gateway call or the prompt can have is a   *)
(* nondeterministic choice.  Strings the code inspects character by        *)
(* character (the desired state, the prompt response) are sequences of     *)
(* one-character strings.                                                  *)
(***************************************************************************)
EXTENDS Integers, Sequences, FiniteSets, TLC

\* ------------------------------------------------------------------ bounds
\* Longest port specification the parser is run on.
MaxPortStringLen == 4

\* Physical ports of the modelled switch: port indexes are 1..NumPorts and a
\* port table lists each port at most once, in any order.
NumPorts == 2

\* ----------------------------------------------------------------- strings
\* str.lower() on the characters the model uses.
LowerChar(c) ==
    CASE c = "O" -> "o"
      [] c = "N" -> "n"
      [] c = "F" -> "f"
      [] c = "Y" -> "y"
      [] c = "E" -> "e"
      [] OTHER -> c

Lower(s) == [i \in 1..Len(s) |-> LowerChar(s[i])]

RECURSIVE LStrip(_)
LStrip(s) == IF s # <<>> /\ Head(s) = " " THEN LStrip(Tail(s)) ELSE s

RECURSIVE RStrip(_)
RStrip(s) ==
    IF s # <<>> /\ s[Len(s)] = " " THEN RStrip(SubSeq(s, 1, Len(s) - 1)) ELSE s

\* str.strip(): leading and trailing whitespace removed.
Strip(s) == RStrip(LStrip(s))

\* OnTokens, were enabled left out.
OnTokens_without_enabled ==
    { <<"o","n">>, <<"e","n","a","b","l","e">>, <<"t","r","u","e">>, <<"1">> }

\* The tokens determine_set_actions accepts (lines 127 and 131).
OnTokens ==
    { <<"o","n">>, <<"e","n","a","b","l","e">>,
      <<"e","n","a","b","l","e","d">>, <<"t","r","u","e">>, <<"1">> }

OffTokens ==
    { <<"o","f","f">>, <<"d","i","s","a","b","l","e">>,
      <<"d","i","s","a","b","l","e","d">>, <<"f","a","l","s","e">>, <<"0">> }

\* ------------------------------------------------------------ dictionaries
\* A raw port record of the controller is a dict: a function whose domain is
\* the keys it holds.  dict.get(key, default):
Get(d, key, default) == IF key \in DOMAIN d THEN d[key] ELSE default

\* port_status is a Python dict keyed by port index: insertion ordered, one
\* entry per key.  It is a sequence of entries with distinct port_idx.
DictKeys(d) == { d[i].port_idx : i \in 1..Len(d) }

\* DictSet, were a new key put first.
DictSet_prepend(d, e) ==
    IF e.port_idx \in DictKeys(d)
    THEN [i \in 1..Len(d) |-> IF d[i].port_idx = e.port_idx THEN e ELSE d[i]]
    ELSE <<e>> \o d

\* d[key] = entry: a new key is appended, an existing key keeps its place.
DictSet(d, e) ==
    IF e.port_idx \in DictKeys(d)
    THEN [i \in 1..Len(d) |-> IF d[i].port_idx = e.port_idx THEN e ELSE d[i]]
    ELSE Append(d, e)

\* --------------------------------------------------------- the environment
\* Values the controller reports for a port's PoE mode and capability flags.
\* A record may also lack either key.
PoeModes == { "off", "auto" }
PoeCaps == { 0, 3 }

PortIdxs == 1..NumPorts

\* The raw port records the controller can report for port i.
RawPorts(i) ==
    LET base == [port_idx |-> i]
        withMode == { base } \cup { base @@ ("poe_mode" :> m) : m \in PoeModes }
    IN  withMode \cup { r @@ ("poe_caps" :> c) : r \in withMode, c \in PoeCaps }

\* Sequences over S without repetition.
RECURSIVE Arrangements(_)
Arrangements(S) ==
    { <<>> } \cup UNION { { <<x>> \o t : t \in Arrangements(S \ {x}) } : x \in S }

\* A port table: some of the switch's ports, each listed once, in any order.
PortTables ==
    UNION { { [k \in 1..Len(order) |-> f[k]] :
                f \in { g \in [1..Len(order) -> UNION { RawPorts(i) : i \in PortIdxs }] :
                          \A k \in 1..Len(order) : g[k].port_idx = order[k] } } :
            order \in Arrangements(PortIdxs) }

\* A device of the controller: with a port table, or (not a switch) without.
Devices == { [mac |-> "switch"] } \cup
           { [mac |-> "switch", port_table |-> t] : t \in PortTables }

\* --------------------------------------------------------- pure functions
\* get_current_poe_status, the loop of lines 105-117 from table position i on.
RECURSIVE StatusLoop(_, _, _, _)
StatusLoop(table, port_indexes, i, port_status) ==
    IF i > Len(table) THEN port_status
    ELSE LET port == table[i]
             port_idx == Get(port, "port_idx", 0)
         IN  IF port_idx \in port_indexes
             THEN StatusLoop(table, port_indexes, i + 1,
                      DictSet(port_status,
                          [ port_idx |-> port_idx,
                            current_mode |-> Get(port, "poe_mode", "unknown"),
                            poe_caps |-> Get(port, "poe_caps", 0) ]))
             ELSE StatusLoop(table, port_indexes, i + 1, port_status)

\* get_current_poe_status, were the ports not filtered by the request.
get_current_poe_status_unfiltered(device, port_indexes) ==
    IF "port_table" \notin DOMAIN device \/ device.port_table = <<>>
    THEN [exc |-> TRUE, value |-> <<>>]
    ELSE [exc |-> FALSE,
          value |-> StatusLoop(device.port_table, PortIdxs, 1, <<>>)]

\* get_current_poe_status: exc is TRUE when it raises ValueError.
get_current_poe_status(device, port_indexes) ==
    IF "port_table" \notin DOMAIN device \/ device.port_table = <<>>
    THEN [exc |-> TRUE, value |-> <<>>]
    ELSE [exc |-> FALSE,
          value |-> StatusLoop(device.port_table, port_indexes, 1, <<>>)]

\* StateMapping, were the mode for Disable written "disabled".
StateMapping_mode_disabled(desired_state) ==
    IF Lower(desired_state) \in OnTokens
    THEN [valid |-> TRUE, target_mode |-> "auto", action_desc |-> "enable",
          target_state |-> "on"]
    ELSE IF Lower(desired_state) \in OffTokens
    THEN [valid |-> TRUE, target_mode |-> "disabled", action_desc |-> "disable",
          target_state |-> "off"]
    ELSE [valid |-> FALSE, target_mode |-> "", action_desc |-> "",
          target_state |-> ""]

\* determine_set_actions, lines 127-136: the desired state token mapped to
\* target_mode, action_desc and target_state; valid is FALSE where the code
\* raises ValueError.
StateMapping(desired_state) ==
    IF Lower(desired_state) \in OnTokens
    THEN [valid |-> TRUE, target_mode |-> "auto", action_desc |-> "enable",
          target_state |-> "on"]
    ELSE IF Lower(desired_state) \in OffTokens
    THEN [valid |-> TRUE, target_mode |-> "off", action_desc |-> "disable",
          target_state |-> "off"]
    ELSE [valid |-> FALSE, target_mode |-> "", action_desc |-> "",
          target_state |-> ""]

\* NoPoeSupport with the test inverted.
NoPoeSupport_inverted(poe_caps) == poe_caps # 0

\* Line 143: the port cannot supply PoE.
NoPoeSupport(poe_caps) == poe_caps = 0

\* CurrentState, were only auto taken as on.
CurrentState_auto_only(current_mode) ==
    IF current_mode = "auto" THEN "on" ELSE "off"

\* Line 148: the on/off state derived from a port's mode.
CurrentState(current_mode) == IF current_mode = "off" THEN "off" ELSE "on"

\* determine_set_actions, the loop of lines 138-156 from dict position i on.
RECURSIVE ActionsLoop(_, _, _, _)
ActionsLoop(port_status, m, i, actions) ==
    IF i > Len(port_status) THEN actions
    ELSE LET status == port_status[i]
         IN  IF NoPoeSupport(status.poe_caps)
             THEN ActionsLoop(port_status, m, i + 1, actions)
             ELSE IF CurrentState(status.current_mode) = m.target_state
             THEN ActionsLoop(port_status, m, i + 1, actions)
             ELSE ActionsLoop(port_status, m, i + 1,
                      Append(actions,
                          [ port_idx |-> status.port_idx,
                            target_mode |-> m.target_mode,
                            action_desc |-> m.action_desc ]))

\* determine_set_actions: exc is TRUE when it raises ValueError.
determine_set_actions(port_status, desired_state) ==
    LET m == StateMapping(desired_state)
    IN  IF m.valid
        THEN [exc |-> FALSE, value |-> ActionsLoop(port_status, m, 1, <<>>)]
        ELSE [exc |-> TRUE, value |-> <<>>]

\* Targets, were the first action left out.
Targets_skip_first(actions) ==
    [i \in 1..(Len(actions) - 1) |->
        <<actions[i + 1].port_idx, actions[i + 1].target_mode>>]

\* set_poe_ports, line 169: the targets of the request.
Targets(actions) ==
    [i \in 1..Len(actions) |-> <<actions[i].port_idx, actions[i].target_mode>>]

\* verify_changes, lines 209-221: one log line per port of the refreshed
\* table that was acted on, an info line ("ok") or a warning ("warn").
\* action_dict keeps the last action of a port.
RECURSIVE VerifyLoop(_, _, _, _)
VerifyLoop(table, actions, i, log) ==
    IF i > Len(table) THEN log
    ELSE LET port == table[i]
             port_idx == Get(port, "port_idx", 0)
             hits == { k \in 1..Len(actions) : actions[k].port_idx = port_idx }
         IN  IF hits # {}
             THEN LET last == CHOOSE k \in hits : \A j \in hits : j <= k
                      current_mode == Get(port, "poe_mode", "unknown")
                      expected_mode == actions[last].target_mode
                  IN  VerifyLoop(table, actions, i + 1,
                          Append(log,
                              [ port_idx |-> port_idx,
                                level |-> IF current_mode = expected_mode
                                          THEN "ok" ELSE "warn" ]))
             ELSE VerifyLoop(table, actions, i + 1, log)

\* ------------------------------------------------------- the port parser
\* str.split(sep): the pieces between the separators, empty ones kept.
RECURSIVE Split(_, _)
Split(s, sep) ==
    IF \E i \in 1..Len(s) : s[i] = sep
    THEN LET i == CHOOSE k \in 1..Len(s) :
                      s[k] = sep /\ \A j \in 1..(k - 1) : s[j] # sep
         IN  <<SubSeq(s, 1, i - 1)>> \o Split(SubSeq(s, i + 1, Len(s)), sep)
    ELSE <<s>>

DigitValue(c) ==
    CASE c = "0" -> 0 [] c = "1" -> 1 [] c = "2" -> 2 [] c = "3" -> 3
      [] c = "4" -> 4 [] c = "5" -> 5 [] c = "6" -> 6 [] c = "7" -> 7
      [] c = "8" -> 8 [] c = "9" -> 9

IsDigit(c) == c \in { "0", "1", "2", "3", "4", "5", "6", "7", "8", "9" }

\* int(text) returns: blanks around the digits are ignored, and there is at
\* least one digit.  (int also takes a sign and underscores between digits;
\* a "-" never reaches it, the part is split at it first, and the strings
\* modelled hold neither "+" nor "_".)
IntParses(text) ==
    LET t == Strip(text)
    IN  t # <<>> /\ \A i \in 1..Len(t) : IsDigit(t[i])

RECURSIVE DigitsValue(_)
DigitsValue(t) ==
    IF t = <<>> THEN 0
    ELSE 10 * DigitsValue(SubSeq(t, 1, Len(t) - 1)) + DigitValue(t[Len(t)])

\* int(text), where it returns.
IntOf(text) == DigitsValue(Strip(text))

\* parse_port_indexes, lines 297-304: the ports one part adds; exc is TRUE
\* where int or the unpacking of line 300 raises ValueError.
PartPorts(part) ==
    LET p == Strip(part)
    IN  IF \E i \in 1..Len(p) : p[i] = "-"
        THEN LET pieces == Split(p, "-")
             IN  IF Len(pieces) = 2 /\ IntParses(pieces[1]) /\ IntParses(pieces[2])
                 THEN LET start == IntOf(pieces[1])
                          end == IntOf(pieces[2])
                      IN  [exc |-> FALSE,
                           value |-> [i \in 1..(end + 1 - start) |-> start + i - 1]]
                 ELSE [exc |-> TRUE, value |-> <<>>]
        ELSE IF IntParses(p)
             THEN [exc |-> FALSE, value |-> <<IntOf(p)>>]
             ELSE [exc |-> TRUE, value |-> <<>>]

\* parse_port_indexes, the loop of lines 296-304 from part i on.
RECURSIVE PortsLoop(_, _, _)
PortsLoop(parts, i, ports) ==
    IF i > Len(parts) THEN [exc |-> FALSE, value |-> ports]
    ELSE LET r == PartPorts(parts[i])
         IN  IF r.exc THEN [exc |-> TRUE, value |-> <<>>]
             ELSE PortsLoop(parts, i + 1, ports \o r.value)

\* sorted(list(set(...))), line 305.
RECURSIVE SortedList(_)
SortedList(S) ==
    IF S = {} THEN <<>>
    ELSE LET least == CHOOSE x \in S : \A y \in S : x <= y
         IN  <<least>> \o SortedList(S \ {least})

\* parse_port_indexes, were the list returned as collected.
parse_port_indexes_as_collected(port_string) ==
    PortsLoop(Split(port_string, ","), 1, <<>>)

\* parse_port_indexes: exc is TRUE when it raises ValueError.
parse_port_indexes(port_string) ==
    LET r == PortsLoop(Split(port_string, ","), 1, <<>>)
    IN  IF r.exc THEN [exc |-> TRUE, value |-> <<>>]
        ELSE [exc |-> FALSE,
              value |-> SortedList({ r.value[i] : i \in 1..Len(r.value) })]

\* The characters of the port specifications the parser is run on.
PortChars == { "1", "2", ",", "-", " ", "x" }

RECURSIVE StringsUpTo(_)
StringsUpTo(n) ==
    IF n = 0 THEN { <<>> }
    ELSE LET shorter == StringsUpTo(n - 1)
         IN  shorter \cup { Append(t, c) : t \in shorter, c \in PortChars }

PortStrings == StringsUpTo(MaxPortStringLen)

DigitChar(i) ==
    CASE i = 0 -> "0" [] i = 1 -> "1" [] i = 2 -> "2" [] i = 3 -> "3"
      [] i = 4 -> "4" [] i = 5 -> "5" [] i = 6 -> "6" [] i = 7 -> "7"
      [] i = 8 -> "8" [] i = 9 -> "9"

\* The ports of S, largest first, with commas between.
RECURSIVE Listed(_)
Listed(S) ==
    LET most == CHOOSE x \in S : \A y \in S : y <= x
    IN  IF S = {most} THEN <<DigitChar(most)>>
        ELSE <<DigitChar(most), ",">> \o Listed(S \ {most})

\* The port specifications a run of the whole script is given: one naming
\* each set of the switch's ports, an empty range, and a malformed one.
CliPortStrings ==
    { Listed(S) : S \in (SUBSET PortIdxs) \ {{}} }
        \cup { <<"2","-","1">>, <<"x">> }

\* The port tables a re-read of the same switch can show: the same ports in
\* the same order, each with any mode (or none reported).
SetMode(port, m) ==
    LET rest == [k \in DOMAIN port \ {"poe_mode"} |-> port[k]]
    IN  IF m = "absent" THEN rest ELSE rest @@ ("poe_mode" :> m)

Refreshed(table) ==
    { [k \in 1..Len(table) |-> SetMode(table[k], f[k])] :
        f \in [1..Len(table) -> PoeModes \cup {"absent"}] }

\* The arguments of main the model runs with.
DesiredStates == { <<"o","n">>, <<"O","F","F">>, <<"m","a","y","b","e">> }

\* What the operator can type at the prompt of line 264.
Responses == { <<"y">>, <<" ","Y"," ">>, <<"y","e","s">>, <<"n">>, <<>> }

\* ------------------------------------------------------------------- state
VARIABLES
    pc,             \* the orchestrator's state (spec 4.3)
    port_string,    \* args.ports, the port specification (line 327)
    parsed,         \* the list parse_port_indexes returned (line 342)
    port_indexes,   \* main's argument: the members of that list
    desired_state,  \* main's argument: the state token
    yes,            \* main's argument: the --yes flag
    aio_session,    \* the aiohttp.ClientSession of line 47: none, open, closed
    session,        \* main's local `session` (line 229): TRUE once bound
    device,         \* main's local `device`
    current_status, \* main's local `current_status`
    actions,        \* main's local `actions`
    response,       \* what input() returned, as typed
    requests,       \* the set-PoE-mode requests issued, each its targets
    rc,             \* how the request ended: none, ok, error, exception
    verify_log,     \* the lines verify_changes logged
    trace,          \* the gateway calls and local steps made, in order
    cause,          \* why the run ended
    result,         \* main's outcome: none, success, failure, interrupted
    exit_code       \* the process exit code, -1 while running

vars == << pc, port_string, parsed, port_indexes, desired_state, yes, aio_session, session, device,
           current_status, actions, response, requests, rc, verify_log,
           trace, cause, result, exit_code >>

args == << port_string, parsed, port_indexes, desired_state, yes >>

NoDevice == [mac |-> "None"]

Running == { "Disconnected", "LoggingIn", "Connected", "DeviceLocated",
             "StatusRead", "ActionsResolved", "Confirmed", "Applied" }
Terminal == { "Done", "Aborted" }

\* The state with the command line read: everything but the arguments,
\* which each specification draws from its own sets.
Start ==
    /\ pc = "Parsing"
    /\ parsed = <<>>
    /\ port_indexes = {}
    /\ aio_session = "none"
    /\ session = FALSE
    /\ device = NoDevice
    /\ current_status = <<>>
    /\ actions = <<>>
    /\ response = <<>>
    /\ requests = <<>>
    /\ rc = "none"
    /\ verify_log = <<>>
    /\ trace = <<>>
    /\ cause = "none"
    /\ result = "none"
    /\ exit_code = -1

Init ==
    /\ port_string \in CliPortStrings
    /\ desired_state \in DesiredStates
    /\ yes \in BOOLEAN
    /\ Start

\* __main__, lines 341-346: the port specification is parsed; a ValueError
\* exits with 1 before main is called.
parse_ports ==
    /\ pc = "Parsing"
    /\ LET r == parse_port_indexes(port_string)
       IN  IF r.exc
           THEN /\ pc' = "ParseFailed"
                /\ cause' = "PortSpecParseError"
                /\ exit_code' = 1
                /\ UNCHANGED << parsed, port_indexes >>
           ELSE /\ pc' = "Disconnected"
                /\ parsed' = r.value
                /\ port_indexes' = { r.value[i] : i \in 1..Len(r.value) }
                /\ UNCHANGED << cause, exit_code >>
    /\ UNCHANGED << port_string, desired_state, yes, aio_session, session,
                    device, current_status, actions, response, requests, rc,
                    verify_log, trace, result >>

\* Finally, were the session closed before the finishing step's calls.
Finally_close_first(events) ==
    /\ aio_session' = IF session THEN "closed" ELSE aio_session
    /\ trace' = trace \o (IF session THEN <<"session.close">> ELSE <<>>) \o events

\* main, lines 287-289: the finally block closes the session main has bound.
\* events are the calls the finishing step made before it.
Finally(events) ==
    /\ aio_session' = IF session THEN "closed" ELSE aio_session
    /\ trace' = trace \o events \o (IF session THEN <<"session.close">> ELSE <<>>)

\* Return, were the exit code 0 whatever main returned.
Return_exit_zero(success, why, events) ==
    /\ pc' = IF success THEN "Done" ELSE "Aborted"
    /\ result' = IF success THEN "success" ELSE "failure"
    /\ cause' = why
    /\ exit_code' = 0
    /\ aio_session' = IF session THEN "closed" ELSE aio_session
    /\ trace' = trace \o events \o (IF session THEN <<"session.close">> ELSE <<>>)

\* main returns success (a return statement, or False from the handler of
\* lines 284-286), the finally block runs, and line 361 sets the exit code.
Return(success, why, events) ==
    /\ pc' = IF success THEN "Done" ELSE "Aborted"
    /\ result' = IF success THEN "success" ELSE "failure"
    /\ cause' = why
    /\ exit_code' = IF success THEN 0 ELSE 1
    /\ Finally(events)

\* ----------------------------------------------------------------- actions
\* connect_to_controller, lines 47-62: the session and the controller are
\* built; the login of line 65 is then awaited.
connect_to_controller ==
    /\ pc = "Disconnected"
    /\ aio_session' = "open"
    /\ pc' = "LoggingIn"
    /\ UNCHANGED << args, session, device, current_status, actions, response,
                    requests, rc, verify_log, trace, cause, result,
                    exit_code >>

\* connect_to_controller, lines 64-76, and main, lines 232-233: login returns
\* and main binds session, or login raises, every handler re-raises, and
\* main's handler (line 284) returns False with session still None.
login_retry_once ==
    /\ pc = "LoggingIn"
    /\ \/ /\ pc' = "Connected"
          /\ session' = TRUE
          /\ trace' = Append(trace, "login")
          /\ UNCHANGED << aio_session, cause, result, exit_code >>
       \/ /\ \A i \in 1..Len(trace) : trace[i] # "login"
          /\ trace' = Append(trace, "login")
          /\ UNCHANGED << pc, session, aio_session, cause, result, exit_code >>
       \/ /\ \E e \in { "LoginRequired", "Unauthorized", "ConnectionError" } :
                 Return(FALSE, e, <<"login">>)
          /\ UNCHANGED session
    /\ UNCHANGED << args, device, current_status, actions, response, requests,
                    rc, verify_log >>

login ==
    /\ pc = "LoggingIn"
    /\ \/ /\ pc' = "Connected"
          /\ session' = TRUE
          /\ trace' = Append(trace, "login")
          /\ UNCHANGED << aio_session, cause, result, exit_code >>
       \/ /\ \E e \in { "LoginRequired", "Unauthorized", "ConnectionError" } :
                 Return(FALSE, e, <<"login">>)
          /\ UNCHANGED session
    /\ UNCHANGED << args, device, current_status, actions, response, requests,
                    rc, verify_log >>

\* find_switch_by_mac, lines 79-95, called at line 236: the devices are
\* enumerated and the one with the normalised MAC is returned.
find_switch_by_mac ==
    /\ pc = "Connected"
    /\ \/ \E d \in Devices :
              /\ device' = d
              /\ pc' = "DeviceLocated"
              /\ trace' = Append(trace, "devices.update")
              /\ UNCHANGED << aio_session, cause, result, exit_code >>
       \/ /\ \E e \in { "DeviceNotFound", "UpdateFailed" } :
                 Return(FALSE, e, <<"devices.update">>)
          /\ UNCHANGED device
    /\ UNCHANGED << args, session, current_status, actions, response, requests,
                    rc, verify_log >>

\* NoValidPorts, were the empty status not checked for.
NoValidPorts_unchecked(status) == FALSE

\* main, line 241: no requested port is in the port table.
NoValidPorts(status) == status = <<>>

\* main, lines 239-247: the status of the requested ports is read.
read_status ==
    /\ pc = "DeviceLocated"
    /\ LET r == get_current_poe_status(device, port_indexes)
       IN  IF r.exc
           THEN /\ Return(FALSE, "NotASwitch", <<"get_current_poe_status">>)
                /\ UNCHANGED current_status
           ELSE IF NoValidPorts(r.value)
           THEN /\ Return(FALSE, "NoValidPorts", <<"get_current_poe_status">>)
                /\ current_status' = r.value
           ELSE /\ pc' = "StatusRead"
                /\ current_status' = r.value
                /\ trace' = Append(trace, "get_current_poe_status")
                /\ UNCHANGED << aio_session, cause, result, exit_code >>
    /\ UNCHANGED << args, session, device, actions, response, requests,
                    rc, verify_log >>

\* NoActions, were the empty action list not checked for.
NoActions_unchecked(acts) == FALSE

\* main, line 252: nothing to change.
NoActions(acts) == acts = <<>>

\* main, lines 250-254: the actions are resolved; none needed is success.
resolve_actions ==
    /\ pc = "StatusRead"
    /\ LET r == determine_set_actions(current_status, desired_state)
       IN  IF r.exc
           THEN /\ Return(FALSE, "InvalidState", <<"determine_set_actions">>)
                /\ UNCHANGED actions
           ELSE IF NoActions(r.value)
           THEN /\ Return(TRUE, "AlreadyInState", <<"determine_set_actions">>)
                /\ actions' = r.value
           ELSE /\ pc' = "ActionsResolved"
                /\ actions' = r.value
                /\ trace' = Append(trace, "determine_set_actions")
                /\ UNCHANGED << aio_session, cause, result, exit_code >>
    /\ UNCHANGED << args, session, device, current_status, response, requests,
                    rc, verify_log >>

\* Affirmative, were any response beginning with y accepted.
Affirmative_prefix(resp) ==
    Lower(Strip(resp)) # <<>> /\ Head(Lower(Strip(resp))) = "y"

\* main, lines 264-265: the response is affirmative.
Affirmative(resp) == Lower(Strip(resp)) = <<"y">>

\* main, lines 256-270: the actions are shown; without --yes the operator is
\* asked, and anything but y cancels.  input() raises EOFError when standard
\* input is closed.
confirm ==
    /\ pc = "ActionsResolved"
    /\ IF yes
       THEN /\ pc' = "Confirmed"
            /\ UNCHANGED << response, aio_session, trace, cause, result,
                            exit_code >>
       ELSE \/ \E resp \in Responses :
                  /\ response' = resp
                  /\ IF Affirmative(resp)
                     THEN /\ pc' = "Confirmed"
                          /\ trace' = Append(trace, "input")
                          /\ UNCHANGED << aio_session, cause, result,
                                          exit_code >>
                     ELSE Return(FALSE, "UserCancelled", <<"input">>)
            \/ /\ Return(FALSE, "EOFError", <<"input">>)
               /\ UNCHANGED response
    /\ UNCHANGED << args, session, device, current_status, actions, requests,
                    rc, verify_log >>

\* RequestSucceeded, were the response's rc not looked at.
RequestSucceeded_any_response(outcome) == outcome # "exception"

\* set_poe_ports, lines 175-184: the request succeeded when the response's
\* meta.rc is ok; any other response, or an exception, is failure.
RequestSucceeded(outcome) == outcome = "ok"

\* set_poe_ports, lines 161-184, and main, lines 273-282: one request with
\* every action's target is issued and awaited.
set_poe_ports ==
    /\ pc = "Confirmed"
    /\ IF actions = <<>>
       THEN /\ pc' = "Applied"
            /\ UNCHANGED << requests, rc, aio_session, trace, cause, result,
                            exit_code >>
       ELSE /\ requests' = Append(requests, Targets(actions))
            /\ \E outcome \in { "ok", "error", "exception" } :
                   /\ rc' = outcome
                   /\ IF RequestSucceeded(outcome)
                      THEN /\ pc' = "Applied"
                           /\ trace' = Append(trace, "request")
                           /\ UNCHANGED << aio_session, cause, result,
                                           exit_code >>
                      ELSE Return(FALSE, "ApplyFailed", <<"request">>)
    /\ UNCHANGED << args, session, device, current_status, actions, response,
                    verify_log >>

\* verify_changes, lines 187-221, and main, lines 277-279: after the settle
\* delay the devices are re-read and each acted-on port is compared.
verify_changes ==
    /\ pc = "Applied"
    /\ \/ /\ Return(FALSE, "RereadFailed", <<"sleep", "devices.update">>)
          /\ UNCHANGED verify_log
       \/ /\ Return(TRUE, "DeviceGone", <<"sleep", "devices.update">>)
          /\ UNCHANGED verify_log
       \/ \E t \in Refreshed(device.port_table) :
              /\ verify_log' = VerifyLoop(t, actions, 1, <<>>)
              /\ Return(TRUE, "Verified", <<"sleep", "devices.update">>)
    /\ UNCHANGED << args, session, device, current_status, actions, response,
                    requests, rc >>

\* An interrupt (KeyboardInterrupt, or the cancellation asyncio.run turns it
\* into) is no Exception: line 284 does not catch it, the finally block
\* runs, and lines 362-364 exit with 1.
interrupt ==
    /\ pc \in Running
    /\ pc' = "Aborted"
    /\ result' = "interrupted"
    /\ cause' = "KeyboardInterrupt"
    /\ exit_code' = 1
    /\ Finally(<<>>)
    /\ UNCHANGED << args, session, device, current_status, actions, response,
                    requests, rc, verify_log >>

Next ==
    \/ parse_ports
    \/ connect_to_controller
    \/ login
    \/ find_switch_by_mac
    \/ read_status
    \/ resolve_actions
    \/ confirm
    \/ set_poe_ports
    \/ verify_changes
    \/ interrupt

Spec == Init /\ [][Next]_vars

\* A step of main: asyncio.run at line 349 resumes the one coroutine whenever
\* what it awaits is there.
MainStep ==
    \/ connect_to_controller
    \/ login
    \/ find_switch_by_mac
    \/ read_status
    \/ resolve_actions
    \/ confirm
    \/ set_poe_ports
    \/ verify_changes

\* The command lines of the runs followed to their end: all ports of the
\* switch, or a port string that does not parse, with every state token and
\* with and without --yes.
InitFair ==
    /\ port_string \in { Listed(PortIdxs), <<"x">> }
    /\ desired_state \in DesiredStates
    /\ yes \in BOOLEAN
    /\ Start

\* The run when every gateway call returns or raises and the operator
\* answers the prompt: a step of main that can be taken is taken. An
\* interrupt may come or not.
SpecFair == InitFair /\ [][Next]_vars /\ WF_vars(MainStep)

\* ---------------------------------------------------- the resolver alone
\* The state tokens the resolver is run on: the ten of lines 127 and 131,
\* some of them in other case, and some it does not know.
StateTokens ==
    { <<"o","n">>, <<"e","n","a","b","l","e">>,
      <<"e","n","a","b","l","e","d">>, <<"t","r","u","e">>, <<"1">>,
      <<"o","f","f">>, <<"d","i","s","a","b","l","e">>,
      <<"d","i","s","a","b","l","e","d">>, <<"f","a","l","s","e">>, <<"0">> }
        \cup { <<"O","N">>, <<"O","f","f">>, <<"E","n","a","b","l","e">> }
        \cup { <<>>, <<"2">>, <<"o">>, <<"o","n","n">>, <<"y","e","s">>,
               <<"m","a","y","b","e">> }

\* The status maps get_current_poe_status can return for the switch.
StatusMaps == { StatusLoop(t, PortIdxs, 1, <<>>) : t \in PortTables }

InitResolve ==
    /\ pc = "Resolving"
    /\ port_string = <<>>
    /\ parsed = <<>>
    /\ port_indexes = PortIdxs
    /\ desired_state \in StateTokens
    /\ yes = FALSE
    /\ aio_session = "none"
    /\ session = FALSE
    /\ device = NoDevice
    /\ current_status \in StatusMaps
    /\ actions = <<>>
    /\ response = <<>>
    /\ requests = <<>>
    /\ rc = "none"
    /\ verify_log = <<>>
    /\ trace = <<>>
    /\ cause = "none"
    /\ result = "none"
    /\ exit_code = -1

\* determine_set_actions on a status map, line 250.
resolve_only ==
    /\ pc = "Resolving"
    /\ LET r == determine_set_actions(current_status, desired_state)
       IN  IF r.exc
           THEN /\ pc' = "Rejected"
                /\ cause' = "InvalidState"
                /\ UNCHANGED actions
           ELSE /\ pc' = "ResolvedOnce"
                /\ actions' = r.value
                /\ UNCHANGED cause
    /\ UNCHANGED << args, aio_session, session, device, current_status,
                    response, requests, rc, verify_log, trace, result,
                    exit_code >>

\* The status map after the switch has taken the request of lines 169-173:
\* each port acted on is in its target mode, every other port as it was.
AfterApply(port_status, acts) ==
    [i \in 1..Len(port_status) |->
        IF \E k \in 1..Len(acts) : acts[k].port_idx = port_status[i].port_idx
        THEN LET k == CHOOSE k \in 1..Len(acts) :
                          acts[k].port_idx = port_status[i].port_idx
             IN  [port_status[i] EXCEPT !.current_mode = acts[k].target_mode]
        ELSE port_status[i]]

\* The request is sent and takes effect on the switch.
apply_actions ==
    /\ pc = "ResolvedOnce"
    /\ pc' = "ActionsApplied"
    /\ requests' = Append(requests, Targets(actions))
    /\ current_status' = AfterApply(current_status, actions)
    /\ UNCHANGED << args, aio_session, session, device, actions, response,
                    rc, verify_log, trace, cause, result, exit_code >>

\* determine_set_actions on the status map of the switch as it now is.
resolve_again ==
    /\ pc = "ActionsApplied"
    /\ pc' = "ResolvedAgain"
    /\ actions' = determine_set_actions(current_status, desired_state).value
    /\ UNCHANGED << args, aio_session, session, device, current_status,
                    response, requests, rc, verify_log, trace, cause, result,
                    exit_code >>

NextResolve == resolve_only \/ apply_actions \/ resolve_again

SpecResolve == InitResolve /\ [][NextResolve]_vars

\* parse_port_indexes alone, on every port specification up to the bound.
InitParse ==
    /\ port_string \in PortStrings
    /\ desired_state = <<"o","n">>
    /\ yes = FALSE
    /\ Start

SpecParse == InitParse /\ [][parse_ports]_vars

\* ------------------------------------------------------------------ claims
Events == { trace[i] : i \in 1..Len(trace) }

Count(e) == Cardinality({ i \in 1..Len(trace) : trace[i] = e })

\* C1: every network session a run of main opens is closed by the time the
\* run ends, on every exit path (normal completion, early abort at any step,
\* external interruption).
C1_SessionClosedAtExit == pc \in Terminal => aio_session # "open"

\* The response is y or Y with only blanks around it.
IsYes(resp) ==
    \E i \in 1..Len(resp) :
        /\ resp[i] \in { "y", "Y" }
        /\ \A j \in 1..Len(resp) : j # i => resp[j] = " "

\* C2: a set-PoE-mode request is sent only if --yes is set or the operator's
\* response is y after trimming and case-folding; after any other response
\* the run is Aborted with result failure and no request is ever sent.
C2_RequestOnlyWhenApproved ==
    /\ requests # <<>> => (yes \/ ("input" \in Events /\ IsYes(response)))
    /\ (~yes /\ "input" \in Events /\ ~IsYes(response)) =>
           (pc = "Aborted" /\ result = "failure" /\ requests = <<>>)

C2_Witness ==
    /\ ~yes
    /\ response = <<"y","e","s">>
    /\ "input" \in Events
    /\ pc = "Aborted"
    /\ requests = <<>>

\* C3: if the apply step succeeded, the run's result is success for every
\* outcome of the verification step: nothing observed or occurring during
\* the re-read and comparison makes the result failure or the run Aborted.
C3_VerificationNeverFails ==
    (rc = "ok" /\ "sleep" \in Events) => (pc = "Done" /\ result = "success")

\* The resolver ran and returned an action list.
Resolved == "determine_set_actions" \in Events /\ cause # "InvalidState"

ActionPorts == { actions[k].port_idx : k \in 1..Len(actions) }

\* C4: determine_set_actions never includes a port whose poe_caps is 0,
\* whatever its current mode, and such a port raises no error.
C4_NoPoePortNeverActedOn ==
    /\ \A i \in 1..Len(current_status) :
           current_status[i].poe_caps = 0 =>
               current_status[i].port_idx \notin ActionPorts
    /\ ("determine_set_actions" \in Events
            /\ desired_state \in { <<"o","n">>, <<"O","F","F">> })
           => cause # "InvalidState"

\* A port without PoE whose mode differs from the desired state was skipped
\* while another port was acted on.
C4_Witness ==
    /\ Resolved
    /\ desired_state = <<"o","n">>
    /\ actions # <<>>
    /\ \E i \in 1..Len(current_status) :
           /\ current_status[i].poe_caps = 0
           /\ current_status[i].current_mode = "off"

\* The desired state of the run, read off the token.
Enable == desired_state = <<"o","n">>

\* C5: for every port with poe_caps # 0 exactly one action is emitted iff
\* (current_mode # "off") differs from (desired = Enable), with target_mode
\* auto and direction enable for Enable, off and disable for Disable; so the
\* output is empty when every port's on/off state equals the desired state.
C5_ActionIffStateDiffers ==
    Resolved =>
        /\ \A i \in 1..Len(current_status) :
               current_status[i].poe_caps # 0 =>
                   LET p == current_status[i].port_idx
                       hits == { k \in 1..Len(actions) : actions[k].port_idx = p }
                       differs == (current_status[i].current_mode # "off") # Enable
                   IN  /\ Cardinality(hits) = IF differs THEN 1 ELSE 0
                       /\ \A k \in hits :
                              /\ actions[k].target_mode =
                                     IF Enable THEN "auto" ELSE "off"
                              /\ actions[k].action_desc =
                                     IF Enable THEN "enable" ELSE "disable"
        /\ (\A i \in 1..Len(current_status) :
                (current_status[i].current_mode # "off") = Enable)
               => actions = <<>>

\* A port in a mode that is neither off nor auto is switched off.
C5_Witness ==
    /\ Resolved
    /\ ~Enable
    /\ \E i \in 1..Len(current_status) :
           /\ current_status[i].current_mode = "unknown"
           /\ \E k \in 1..Len(actions) :
                  /\ actions[k].port_idx = current_status[i].port_idx
                  /\ actions[k].target_mode = "off"

\* The place of port p in the device's port table.
TablePos(p) ==
    CHOOSE k \in 1..Len(device.port_table) : device.port_table[k].port_idx = p

Ascending(seq) ==
    \A i, j \in 1..Len(seq) : i < j => seq[i].port_idx < seq[j].port_idx

\* C6 as claimed: the action list is ordered by port index ascending, for
\* every order in which the device's port table lists its ports.
C6_ActionsAscending == Ascending(actions)

\* C6 as amended: the action list keeps the order in which the device's port
\* table lists the ports, so it is ascending by port index when the port
\* table is.
C6_ActionsInTableOrder ==
    actions # <<>> =>
        /\ \A i, j \in 1..Len(actions) :
               i < j => TablePos(actions[i].port_idx) < TablePos(actions[j].port_idx)
        /\ Ascending(device.port_table) => Ascending(actions)

\* Two ports the table lists in descending order are both acted on.
C6_Witness ==
    /\ Len(actions) = 2
    /\ actions[1].port_idx > actions[2].port_idx
    /\ TablePos(actions[1].port_idx) < TablePos(actions[2].port_idx)

\* The resolver returned an empty action list.
ResolvedEmpty == Resolved /\ actions = <<>>

\* C7: when the resolved action list is empty the run goes directly to Done
\* with result success: no prompt, no set-PoE-mode request, no re-read.
C7_EmptyActionsShortCircuit ==
    ResolvedEmpty =>
        /\ pc = "Done"
        /\ result = "success"
        /\ "input" \notin Events
        /\ requests = <<>>
        /\ "sleep" \notin Events
        /\ Count("devices.update") = 1

\* Every requested port with PoE is already on and the run is Done.
C7_Witness ==
    /\ ResolvedEmpty
    /\ Enable
    /\ \E i \in 1..Len(current_status) :
           current_status[i].poe_caps # 0 /\ current_status[i].current_mode = "auto"
    /\ pc = "Done"

\* C8: when the response to the set-PoE-mode request is not a success or the
\* request raises, the run ends Aborted with result failure and the
\* verification step (settle delay and re-read) is not performed.
C8_ApplyFailureAborts ==
    rc \in { "error", "exception" } =>
        /\ pc = "Aborted"
        /\ result = "failure"
        /\ "sleep" \notin Events
        /\ Count("devices.update") = 1
        /\ verify_log = <<>>

C8_Witness == rc = "error" /\ pc = "Aborted" /\ "request" \in Events

\* C9: in a run that reaches the apply step exactly one set-PoE-mode request
\* is sent, and its targets are exactly the (port_index, target_mode) pairs
\* of the action list, one per action, no port outside the action list.
C9_OneRequestWithActionTargets ==
    /\ Len(requests) <= 1
    /\ (rc # "none" \/ pc = "Applied" \/ "request" \in Events) =>
           /\ Len(requests) = 1
           /\ Len(requests[1]) = Len(actions)
           /\ \A k \in 1..Len(actions) :
                  requests[1][k] = <<actions[k].port_idx, actions[k].target_mode>>
           /\ { requests[1][k][1] : k \in 1..Len(requests[1]) } = ActionPorts

\* A request for one port was sent while another requested port was left.
C9_Witness ==
    /\ rc = "ok"
    /\ Len(requests) = 1
    /\ Len(requests[1]) = 1
    /\ Len(current_status) = 2

HasPortTable == "port_table" \in DOMAIN device /\ device.port_table # <<>>

StatusRead == "get_current_poe_status" \in Events

\* C10: if the located device has no port table, or none of the requested
\* port indexes is in its port table, the run ends Aborted with result
\* failure, the resolver is not run and no set-PoE-mode request is sent.
C10_NoPortsAborts ==
    (StatusRead /\
        (~HasPortTable \/
         { device.port_table[k].port_idx : k \in 1..Len(device.port_table) }
             \cap port_indexes = {}))
    =>  /\ pc = "Aborted"
        /\ result = "failure"
        /\ "determine_set_actions" \notin Events
        /\ requests = <<>>

\* Ports were requested, the device has a port table, none of them is in it.
C10_Witness ==
    /\ StatusRead
    /\ HasPortTable
    /\ port_indexes # {}
    /\ cause = "NoValidPorts"
    /\ pc = "Aborted"

TablePorts == { device.port_table[k].port_idx : k \in 1..Len(device.port_table) }

\* C11: get_current_poe_status returns a status entry for exactly the
\* requested port indexes that are in the device's port table: a requested
\* index absent from the table is omitted without an error, and no index
\* that was not requested appears.
C11_StatusIsRequestedInTable ==
    (StatusRead /\ HasPortTable) =>
        /\ DictKeys(current_status) = port_indexes \cap TablePorts
        /\ Len(current_status) = Cardinality(port_indexes \cap TablePorts)
        /\ cause # "NotASwitch"

\* One requested port is in the table and one is not; the run went on.
C11_Witness ==
    /\ StatusRead
    /\ HasPortTable
    /\ port_indexes \ TablePorts # {}
    /\ Len(current_status) = 1
    /\ pc = "StatusRead"

\* C12: the exit code is 0 exactly when the orchestrator's result is success
\* (Done), and 1 for every failure cause, for user cancellation, for a
\* port-spec parse error and for an external interrupt.
C12_ExitCode ==
    /\ exit_code \in { -1, 0, 1 }
    /\ exit_code = 0 <=> (pc = "Done" /\ result = "success")
    /\ exit_code = 1 <=>
           \/ pc = "Aborted" /\ result \in { "failure", "interrupted" }
           \/ pc = "ParseFailed"
    /\ exit_code = -1 <=> pc \in Running \cup { "Parsing" }
    /\ cause \in { "UserCancelled", "PortSpecParseError", "KeyboardInterrupt",
                   "LoginRequired", "Unauthorized", "ConnectionError",
                   "DeviceNotFound", "UpdateFailed", "NotASwitch",
                   "NoValidPorts", "InvalidState", "EOFError", "ApplyFailed",
                   "RereadFailed" } => exit_code = 1
    /\ cause \in { "AlreadyInState", "Verified", "DeviceGone" } => exit_code = 0

\* The operator declined at the prompt and the process exited with 1.
C12_Witness == cause = "UserCancelled" /\ exit_code = 1 /\ pc = "Aborted"

\* The places of character c in s, and the tokens of s: the stretches
\* between one comma (or the start) and the next (or the end).
Places(s, c) == { i \in 1..Len(s) : s[i] = c }

Tokens(s) ==
    LET cuts == Places(s, ",") \cup { 0, Len(s) + 1 }
    IN  { SubSeq(s, a + 1, b - 1) :
            <<a, b>> \in { ab \in cuts \X cuts :
                             /\ ab[1] < ab[2]
                             /\ \A k \in cuts : ~(ab[1] < k /\ k < ab[2]) } }

\* t without the blanks before its first and after its last other character.
Trimmed(t) ==
    LET inked == { i \in 1..Len(t) : t[i] # " " }
    IN  IF inked = {} THEN <<>>
        ELSE SubSeq(t, CHOOSE i \in inked : \A j \in inked : i <= j,
                       CHOOSE i \in inked : \A j \in inked : j <= i)

IsNumeral(t) ==
    /\ Trimmed(t) # <<>>
    /\ \A i \in 1..Len(Trimmed(t)) :
           Trimmed(t)[i] \in { "0", "1", "2", "3", "4", "5", "6", "7", "8", "9" }

RECURSIVE Pow10(_)
Pow10(n) == IF n = 0 THEN 1 ELSE 10 * Pow10(n - 1)

RECURSIVE PlaceSum(_, _)
PlaceSum(t, i) ==
    IF i > Len(t) THEN 0
    ELSE DigitValue(t[i]) * Pow10(Len(t) - i) + PlaceSum(t, i + 1)

NumeralValue(t) == PlaceSum(Trimmed(t), 1)

\* A token is one integer, or two integers with one "-" between them.
WellFormed(tok) ==
    \/ IsNumeral(tok)
    \/ /\ Cardinality(Places(tok, "-")) = 1
       /\ LET d == CHOOSE i \in Places(tok, "-") : TRUE
          IN  /\ IsNumeral(SubSeq(tok, 1, d - 1))
              /\ IsNumeral(SubSeq(tok, d + 1, Len(tok)))

\* The integers a well-formed token names.
Named(tok) ==
    IF IsNumeral(tok) THEN { NumeralValue(tok) }
    ELSE LET d == CHOOSE i \in Places(tok, "-") : TRUE
         IN  NumeralValue(SubSeq(tok, 1, d - 1))
                 .. NumeralValue(SubSeq(tok, d + 1, Len(tok)))

EnableWords ==
    { <<"o","n">>, <<"e","n","a","b","l","e">>, <<"e","n","a","b","l","e","d">>,
      <<"t","r","u","e">>, <<"1">> }

DisableWords ==
    { <<"o","f","f">>, <<"d","i","s","a","b","l","e">>,
      <<"d","i","s","a","b","l","e","d">>, <<"f","a","l","s","e">>, <<"0">> }

\* a and b are the same but for the case of their letters.
SameButCase(a, b) ==
    /\ Len(a) = Len(b)
    /\ \A i \in 1..Len(a) :
           \/ a[i] = b[i]
           \/ { a[i], b[i] } \in { {"o","O"}, {"n","N"}, {"f","F"}, {"e","E"},
                                   {"y","Y"} }

\* The resolver took the token as Enable (on = TRUE) or Disable.
ResolvedAs(on) ==
    /\ pc = "ResolvedOnce"
    /\ cause = "none"
    /\ \A i \in 1..Len(current_status) :
           current_status[i].poe_caps # 0 =>
               (current_status[i].port_idx \in ActionPorts
                    <=> ((current_status[i].current_mode # "off") # on))
    /\ \A k \in 1..Len(actions) :
           /\ actions[k].target_mode = IF on THEN "auto" ELSE "off"
           /\ actions[k].action_desc = IF on THEN "enable" ELSE "disable"

RejectedToken == pc = "Rejected" /\ cause = "InvalidState" /\ actions = <<>>

\* C14 as claimed: the token resolves to Enable for each of on, enable,
\* enabled, true, 1, to Disable for each of off, disable, disabled, false,
\* 0, and every other token is rejected with an invalid-state error and
\* produces no actions.
C14_TokensAsListed ==
    pc \in { "ResolvedOnce", "Rejected" } =>
        IF desired_state \in EnableWords THEN ResolvedAs(TRUE)
        ELSE IF desired_state \in DisableWords THEN ResolvedAs(FALSE)
        ELSE RejectedToken

\* C14 as amended: the token is compared without regard to case; it
\* resolves to Enable when it is one of on, enable, enabled, true, 1 but for
\* case, to Disable when it is one of off, disable, disabled, false, 0 but
\* for case, and every other token is rejected with an invalid-state error
\* and produces no actions.
C14_TokensButCase ==
    pc \in { "ResolvedOnce", "Rejected" } =>
        IF \E w \in EnableWords : SameButCase(desired_state, w)
        THEN ResolvedAs(TRUE)
        ELSE IF \E w \in DisableWords : SameButCase(desired_state, w)
        THEN ResolvedAs(FALSE)
        ELSE RejectedToken

\* "enabled" switched a port on.
C14_Witness ==
    /\ pc = "ResolvedOnce"
    /\ desired_state = <<"e","n","a","b","l","e","d">>
    /\ actions # <<>>

\* C17: when the actions determine_set_actions returned are applied (each
\* acted-on port in its target mode, every other port unchanged),
\* determine_set_actions on the resulting status map with the same desired
\* state returns an empty list.
C17_Convergence == pc = "ResolvedAgain" => actions = <<>>

\* Two ports were switched, and nothing is left to do.
C17_Witness ==
    /\ pc = "ResolvedAgain"
    /\ Len(requests) = 1
    /\ Len(requests[1]) = 2
    /\ actions = <<>>

GatewayCalls == { "login", "devices.update", "request", "session.close" }

IsGatewayCall(e) == e \in GatewayCalls

\* The gateway calls of the run, in the order made.
Calls == SelectSeq(trace, IsGatewayCall)

\* The calls of a whole run, in the order of main: authenticate (line 65),
\* enumerate devices (line 82), set PoE modes (line 173), re-read devices
\* (line 195).
CallOrder == <<"login", "devices.update", "request", "devices.update">>

\* What a run may have called so far: the first calls of the order, each
\* after the one before it, and after at least the first of them the close
\* of the session.
OrderedCalls ==
    { SubSeq(CallOrder, 1, n) : n \in 0..Len(CallOrder) }
        \cup { Append(SubSeq(CallOrder, 1, n), "session.close") :
                   n \in 1..Len(CallOrder) }

\* C15: within one run the gateway calls occur strictly in the order
\* authenticate, enumerate devices, set PoE modes, re-read devices, close
\* session, each after the previous one has completed, and no gateway call
\* is issued after the session has been closed.
C15_GatewayCallOrder ==
    /\ Calls \in OrderedCalls
    /\ \A i \in 1..Len(trace) : trace[i] = "session.close" => i = Len(trace)
    /\ aio_session = "closed" => pc \in Terminal

\* All five calls were made.
C15_Witness ==
    Calls = <<"login", "devices.update", "request", "devices.update",
              "session.close">>

\* C16: every run eventually reaches exactly one terminal state, Done or
\* Aborted, given that every gateway call returns or raises and the operator
\* answers the prompt: a run of main ends in Done or Aborted, a run that
\* has ended stays as it ended, and nothing is retried:
\* authentication and the set-PoE-mode request are each attempted at most
\* once.
C16_TerminatesWithoutRetry ==
    /\ (pc = "Disconnected") ~> (pc \in Terminal)
    /\ [][(pc \in Terminal) => (pc' = pc /\ result' = result)]_vars
    /\ [](Count("login") <= 1 /\ Count("request") <= 1 /\ Len(requests) <= 1)

\* A run that ended in Done after one authentication and one request.
C16_Witness ==
    /\ pc = "Done"
    /\ Count("login") = 1
    /\ Count("request") = 1
    /\ Len(requests) = 1

====
